---- MODULE Spec2Model ----
(***************************************************************************)
(* The serverless request handlers of wzrdflow as one state machine:      *)
(*   generate-storylines     (src/unnamed/part_000)                        *)
(*   fal.ai submit           (src/unnamed/part_001)                        *)
(*   generate-shot-image     (src/supabase/functions/generate-shot-image)  *)
(*   generate-visual-prompt  (src/supabase/functions/generate-visual-prompt)*)
(* One action is one run of a handler from one await to the next: the     *)
(* JavaScript between two awaits runs without interleaving, and at every  *)
(* await another invocation may run.  The answers of the database, the    *)
(* auth service and the AI providers are inputs drawn with \E.            *)
(*                                                                         *)
(* The storyboard page of the web client (src/unnamed/part_002) is a       *)
(* second state machine, PageSpec, over its own variables: the React state *)
(* of StoryboardPage and the fetchData calls in flight.                    *)
(***************************************************************************)
EXTENDS Integers, Sequences, FiniteSets, TLC

\* ---------------------------------------------------------------- bounds
MaxStarts == 2        \* invocations started in one behaviour
MaxPromptLen == 1     \* length of a text answered by Claude for a visual prompt
MaxLoads == 2         \* fetchData calls of the storyboard page in one behaviour

\* ------------------------------------------------------------- constants
NULL == "null"
NullText == <<NULL>>                  \* a text column holding null
Procs == {"p1", "p2"}                 \* invocations in flight at once
ShotIds == {"s1"}                     \* rows of the shots table
Chars == {"a", " ", "\""}             \* a letter, whitespace, a double quote

GS == "generate-storylines"
VP == "generate-visual-prompt"
SI == "generate-shot-image"
FAL == "fal-submit"

\* ------------------------------------------------------- string helpers
RECURSIVE TrimLeft(_)
TrimLeft(s) == IF s # <<>> /\ Head(s) = " " THEN TrimLeft(Tail(s)) ELSE s

RECURSIVE TrimRight(_)
TrimRight(s) ==
  IF s # <<>> /\ s[Len(s)] = " " THEN TrimRight(SubSeq(s, 1, Len(s) - 1)) ELSE s

\* String.prototype.trim
Trim(s) == TrimRight(TrimLeft(s))

\* .replace(/^"|"$/g, ''): one quote at the start and one at the end go
StripQuotes(s) ==
  LET s1 == IF s # <<>> /\ Head(s) = "\"" THEN Tail(s) ELSE s
  IN IF s1 # <<>> /\ s1[Len(s1)] = "\"" THEN SubSeq(s1, 1, Len(s1) - 1) ELSE s1

\* visualPrompt.trim().replace(/^"|"$/g, '')
CleanVisualPrompt(s) == StripQuotes(Trim(s))

\* mutant: only a missing prompt is turned down, not a blank one
NoUsablePrompt_NullOnly(p) == p = NullText

\* !shot.visual_prompt || shot.visual_prompt.trim() === ""
NoUsablePrompt(p) == p = NullText \/ p = <<>> \/ Trim(p) = <<>>

Texts(n) == UNION {[1..k -> Chars] : k \in 0..n}
ClaudeTexts == Texts(MaxPromptLen)

\* ------------------------------------------------------------ responses
Resp(status, kind, success, error) ==
  [status |-> status, kind |-> kind, success |-> success, error |-> error]

NoResp == Resp(0, "none", "absent", "none")

\* new Response(null, { headers: corsHeaders }) and handleCors()
CorsResp == Resp(200, "empty", "absent", "none")

\* errorResponse(message, status, details?) of _shared/response.ts
errorResponse(msg, status) == Resp(status, "json", "absent", msg)

\* successResponse(data) of _shared/response.ts
successResponse == Resp(200, "json", "true", "none")

\* std/http serve: an exception that leaves the handler is answered by the
\* server's default onError with a plain-text 500
EscapedResp == Resp(500, "plain", "absent", "none")

\* mutant: the status option is left out of the error envelope
SIError_NoStatus(msg, status) == Resp(200, "json", "false", msg)

\* generate-shot-image builds its envelopes by hand
SIError(msg, status) == Resp(status, "json", "false", msg)
SISuccess == Resp(200, "json", "true", "none")

\* the fal.ai submit handler
FalError(msg) == Resp(500, "json", "absent", msg)
FalSuccess == Resp(200, "json", "absent", "none")

\* ------------------------------------------------------------ the state
VARIABLES
  env,        \* Deno.env: which variables are set
  client,     \* the module-level supabase client of generate-shot-image
  shots,      \* the shots table: image_status, visual_prompt, failure_reason
  inv,        \* the invocations in flight or finished, one per slot
  lumaSince,  \* per shot: Luma generations initiated since it became 'generating'
  started     \* invocations started so far

\* the storyboard page (src/unnamed/part_002)
VARIABLES
  page,       \* the React state of StoryboardPage, one field per useState
  loads,      \* the fetchData calls: where each is and what its queries answered
  path,       \* the route the browser is on
  fetched     \* fetchData calls made so far

handlerVars == <<env, client, shots, inv, lumaSince, started>>
pageVars == <<page, loads, path, fetched>>
vars == <<env, client, shots, inv, lumaSince, started, page, loads, path, fetched>>

\* a nullable value of the page: null, or the value
None == <<>>
Some(v) == <<v>>

Loads == {"l1", "l2"}                 \* fetchData calls in flight at once

\* the useState initial values
InitialPage ==
  [scenes |-> <<>>, projectDetails |-> None, characters |-> <<>>,
   selectedScene |-> None, isLoading |-> TRUE, sidebarData |-> None]

NoLoad == [pc |-> "idle", projectId |-> NULL, res |-> None]

\* the page as it is mounted, before its effect has run
PageStart ==
  /\ page = InitialPage
  /\ loads = [l \in Loads |-> NoLoad]
  /\ path = "storyboard"
  /\ fetched = 0

Idle ==
  [h |-> "idle", pc |-> "idle", id |-> NULL, alt |-> FALSE,
   log |-> <<>>, resp |-> NoResp, data |-> <<>>]

InitShots ==
  { [image_status |-> "pending", visual_prompt |-> NullText, failure_reason |-> NULL],
    [image_status |-> "prompt_ready", visual_prompt |-> <<"a">>, failure_reason |-> NULL],
    [image_status |-> "prompt_ready", visual_prompt |-> <<" ">>, failure_reason |-> NULL] }

\* Deno.env of a deployment: every variable set, or one of them missing
\* (a handler stops at the first variable it misses, and no handler reads
\* FAL_KEY together with another variable)
Envs ==
  {e \in [SUPABASE_URL : BOOLEAN, ANTHROPIC_API_KEY : BOOLEAN, FAL_KEY : BOOLEAN] :
     Cardinality({v \in DOMAIN e : ~e[v]}) <= 1}

Init ==
  /\ env \in Envs
  /\ client = [session |-> NULL]
  /\ shots \in [ShotIds -> InitShots]
  /\ inv = [p \in Procs |-> Idle]
  /\ lumaSince = [s \in ShotIds |-> 0]
  /\ started = 0
  /\ PageStart

\* an invocation ends with a response
Finish(rec, r) == [rec EXCEPT !.pc = "done", !.resp = r, !.data = <<>>]

\* what an invocation asked of the outside and the answer it got: the call,
\* the kind of answer and the text the answer carries
\* (and, for a call whose arguments matter, the arguments x)
Ans(c, x, a, t) == [c |-> c, x |-> x, a |-> a, t |-> t]

Called(rec, c, a, t) == [rec EXCEPT !.log = Append(@, Ans(c, <<>>, a, t))]

CalledWith(rec, c, x, a, t) == [rec EXCEPT !.log = Append(@, Ans(c, x, a, t))]

\* a new invocation may take slot p
Free(p) == inv[p].pc \in {"idle", "done"} /\ started < MaxStarts

\* a request: the preflight is answered at once, another method runs the body
Request(h, method, first) ==
  IF method = "OPTIONS" THEN [Idle EXCEPT !.h = h, !.pc = "done", !.resp = CorsResp]
  ELSE [Idle EXCEPT !.h = h, !.pc = first]

Methods == {"OPTIONS", "POST"}

At(p, h, pc) == inv[p].h = h /\ inv[p].pc = pc

Done(p) == inv[p].pc = "done"

\* invocation p made the call c (and got the answer a)
Did(p, c) == \E i \in 1..Len(inv[p].log) : inv[p].log[i].c = c

Got(p, c, a) == \E i \in 1..Len(inv[p].log) : inv[p].log[i].c = c /\ inv[p].log[i].a = a

\* the position of the first call c in p's log (0: none)
Pos(p, c) ==
  IF Did(p, c) THEN CHOOSE i \in 1..Len(inv[p].log) :
                      /\ inv[p].log[i].c = c
                      /\ \A j \in 1..(i - 1) : inv[p].log[j].c # c
  ELSE 0

\* =====================================================================
\* generate-shot-image (src/supabase/functions/generate-shot-image/index.ts)
\* A database write whose result the handler does not look at is taken to
\* be applied.
\* =====================================================================

\* .update({ image_status: "generating" }).eq("id", shot_id)
SIGeneratingUpdate(row) == [row EXCEPT !.image_status = "generating"]

\* mutant: the failure reason is not stored
SIFailedUpdate_NoReason(row, msg) == [row EXCEPT !.image_status = "failed"]

\* mutant: the inner catch marks the shot completed
SIFailedUpdate_Completed(row, msg) ==
  [row EXCEPT !.image_status = "completed", !.failure_reason = msg]

\* .update({ image_status: "failed", failure_reason: error.message })
SIFailedUpdate(row, msg) ==
  [row EXCEPT !.image_status = "failed", !.failure_reason = msg]

\* messages of the errors initiateLumaImageGeneration throws
LumaErrors == {"Luma API error", "Luma API key missing"}

\* mutant: whatever getUser answers, a user is assumed
GetUser_Assumed(token, session, answer) == "user"

\* supabase.auth.getUser(jwt): with a jwt the auth service decides; with the
\* empty string supabase-js falls back to the session stored in the client
GetUser(token, session, answer) ==
  IF token # "" THEN answer
  ELSE IF session # NULL THEN "user" ELSE "error"

\* mutant: the user found is kept as the session of the shared client
ClientAfterGetUser_Stored(c, user) ==
  IF user = "error" THEN c ELSE [c EXCEPT !.session = user]

\* getUser leaves the module-level client as it is
ClientAfterGetUser(c, user) == c

\* the request arrives; the OPTIONS preflight is answered at once
SI_Request(p) ==
  /\ Free(p)
  /\ env.SUPABASE_URL      \* createClient at module load did not throw
  /\ \E method \in Methods : inv' = [inv EXCEPT ![p] = Request(SI, method, "json")]
  /\ started' = started + 1
  /\ UNCHANGED <<pageVars, env, client, shots, lumaSince>>

\* const { shot_id } = await req.json(); if (!shot_id) 400
SI_Json(p) ==
  /\ At(p, SI, "json")
  /\ \E body \in ShotIds \cup {NULL, "nx", "throw"} :
       LET rec == Called(inv[p], "req.json", body, <<>>)
       IN inv' = [inv EXCEPT ![p] =
            IF body = "throw" THEN Finish(rec, SIError("Unexpected token", 500))
            ELSE IF body = NULL THEN Finish(rec, SIError("Missing shot ID", 400))
            ELSE [rec EXCEPT !.pc = "fetch", !.id = body]]
  /\ UNCHANGED <<pageVars, env, client, shots, lumaSince, started>>

\* select id, project_id, visual_prompt, image_status; 404; prompt check 400
SI_Fetch(p) ==
  /\ At(p, SI, "fetch")
  /\ \E found \in {f \in BOOLEAN : f => inv[p].id \in ShotIds} :
       LET row == shots[inv[p].id]
           rec == IF found
                  THEN Called(inv[p], "select:shots", row.image_status, row.visual_prompt)
                  ELSE Called(inv[p], "select:shots", "error", <<>>)
       IN inv' = [inv EXCEPT ![p] =
            IF ~found THEN Finish(rec, SIError("Shot not found", 404))
            ELSE IF NoUsablePrompt(row.visual_prompt)
            THEN Finish(rec, SIError("Shot doesn't have a visual prompt", 400))
            ELSE [rec EXCEPT !.pc = "setgen"]]
  /\ UNCHANGED <<pageVars, env, client, shots, lumaSince, started>>

\* await supabase.from("shots").update({ image_status: "generating" })
SI_SetGenerating(p) ==
  /\ At(p, SI, "setgen")
  /\ LET s == inv[p].id IN
       /\ shots' = [shots EXCEPT ![s] = SIGeneratingUpdate(@)]
       /\ lumaSince' = IF shots[s].image_status # shots'[s].image_status
                       THEN [lumaSince EXCEPT ![s] = 0] ELSE lumaSince
       /\ inv' = [inv EXCEPT ![p] =
            [Called(inv[p], "update:shots", shots'[s].image_status, <<>>)
             EXCEPT !.pc = "auth"]]
  /\ UNCHANGED <<pageVars, env, client, started>>

\* supabase.auth.getUser(bearer token); 401 when there is no user
SI_Auth(p) ==
  /\ At(p, SI, "auth")
  /\ \E token \in {"", "jwt"}, answer \in {"user", "error"} :
       /\ token = "" => answer = "error"     \* no request is sent without a jwt
       /\ LET user == GetUser(token, client.session, answer)
              rec == Called(inv[p], "auth.getUser", IF token = "" THEN "nojwt" ELSE answer, <<>>)
          IN /\ inv' = [inv EXCEPT ![p] =
                  IF user = "error" THEN Finish(rec, SIError("User not authenticated", 401))
                  ELSE [rec EXCEPT !.pc = "project"]]
             /\ client' = ClientAfterGetUser(client, user)
  /\ UNCHANGED <<pageVars, env, shots, lumaSince, started>>

\* select aspect_ratio of the project; an error falls back to "16:9"
SI_Project(p) ==
  /\ At(p, SI, "project")
  /\ \E answer \in {"ratio", "error"} :
       inv' = [inv EXCEPT ![p] =
                 [Called(inv[p], "select:projects", answer, <<>>) EXCEPT !.pc = "luma"]]
  /\ UNCHANGED <<pageVars, env, client, shots, lumaSince, started>>

\* initiateLumaImageGeneration: 200 with its result, or the inner catch
SI_Luma(p) ==
  /\ At(p, SI, "luma")
  /\ \E answer \in {"result", "throw"}, msg \in LumaErrors \cup {"none"} :
       /\ answer = "throw" <=> msg \in LumaErrors
       /\ LET rec == Called(inv[p], "luma", answer, <<msg>>)
              s == inv[p].id
          IN
          /\ inv' = [inv EXCEPT ![p] =
               IF answer = "throw" THEN [rec EXCEPT !.pc = "fail", !.data = <<msg>>]
               ELSE Finish(rec, SISuccess)]
          /\ lumaSince' = IF /\ answer = "result"
                             /\ shots[s].image_status = "generating"
                             /\ lumaSince[s] < MaxStarts
                          THEN [lumaSince EXCEPT ![s] = @ + 1] ELSE lumaSince
  /\ UNCHANGED <<pageVars, env, client, shots, started>>

\* the inner catch: status 'failed' with the failure reason, then 500
SI_Fail(p) ==
  /\ At(p, SI, "fail")
  /\ LET s == inv[p].id IN
       /\ shots' = [shots EXCEPT ![s] = SIFailedUpdate(@, inv[p].data[1])]
       /\ lumaSince' = [lumaSince EXCEPT ![s] = 0]
       /\ inv' = [inv EXCEPT ![p] =
            Finish(Called(inv[p], "update:shots", shots'[s].image_status,
                          <<shots'[s].failure_reason>>),
                   SIError(inv[p].data[1], 500))]
  /\ UNCHANGED <<pageVars, env, client, started>>

ShotImage(p) ==
  \/ SI_Request(p) \/ SI_Json(p) \/ SI_Fetch(p) \/ SI_SetGenerating(p)
  \/ SI_Auth(p) \/ SI_Project(p) \/ SI_Luma(p) \/ SI_Fail(p)

\* =====================================================================
\* generate-visual-prompt (src/supabase/functions/generate-visual-prompt/index.ts)
\* =====================================================================

\* createClient(url, key) of supabase-js throws when the url is empty
CreateClientThrows(e) == ~e.SUPABASE_URL

\* mutant: the update stores the prompt and leaves the status
VPUpdate_PromptOnly(row, prompt) == [row EXCEPT !.visual_prompt = prompt]

\* .update({ visual_prompt: cleanedVisualPrompt, image_status: 'prompt_ready' })
VPUpdate(row, prompt) ==
  [row EXCEPT !.visual_prompt = prompt, !.image_status = "prompt_ready"]

\* the request arrives; createClient runs before the try block
VP_Request(p) ==
  /\ Free(p)
  /\ \E method \in Methods :
       LET rec == Request(VP, method, "json")
       IN inv' = [inv EXCEPT ![p] =
            IF method = "OPTIONS" THEN rec
            ELSE IF CreateClientThrows(env)
            THEN Finish(Called(rec, "createClient", "throw", <<>>), EscapedResp)
            ELSE rec]
  /\ started' = started + 1
  /\ UNCHANGED <<pageVars, env, client, shots, lumaSince>>

\* const { shot_id } = await req.json(); if (!shot_id) 400
VP_Json(p) ==
  /\ At(p, VP, "json")
  /\ \E body \in ShotIds \cup {NULL, "nx", "throw"} :
       LET rec == Called(inv[p], "req.json", body, <<>>)
       IN inv' = [inv EXCEPT ![p] =
            IF body = "throw" THEN Finish(rec, errorResponse("Unexpected token", 500))
            ELSE IF body = NULL THEN Finish(rec, errorResponse("shot_id is required", 400))
            ELSE [rec EXCEPT !.pc = "fetch", !.id = body]]
  /\ UNCHANGED <<pageVars, env, client, shots, lumaSince, started>>

\* 1. fetch the shot with its scene and project; 404.  2. build the
\* prompts.  3. the Anthropic key; 500 when it is missing
VP_Fetch(p) ==
  /\ At(p, VP, "fetch")
  /\ \E found \in {f \in BOOLEAN : f => inv[p].id \in ShotIds} :
       LET rec == Called(inv[p], "select:shots", IF found THEN "row" ELSE "error", <<>>)
       IN inv' = [inv EXCEPT ![p] =
            IF ~found
            THEN Finish(rec, errorResponse("Shot not found or failed to fetch context", 404))
            ELSE IF ~env.ANTHROPIC_API_KEY
            THEN Finish(rec, errorResponse("Server config error: Anthropic key missing", 500))
            ELSE [rec EXCEPT !.pc = "claude"]]
  /\ UNCHANGED <<pageVars, env, client, shots, lumaSince, started>>

\* callClaudeApi(...); the answer is trimmed and its wrapping quotes removed
VP_Claude(p) ==
  /\ At(p, VP, "claude")
  /\ \/ \E text \in ClaudeTexts :
          inv' = [inv EXCEPT ![p] =
                    [Called(inv[p], "claude", "text", text)
                     EXCEPT !.pc = "update", !.data = <<CleanVisualPrompt(text)>>]]
     \/ inv' = [inv EXCEPT ![p] =
                  Finish(Called(inv[p], "claude", "throw", <<>>),
                         errorResponse("Claude API error", 500))]
  /\ UNCHANGED <<pageVars, env, client, shots, lumaSince, started>>

\* mutant: the error of the update is not looked at
VP_Update_Unchecked(p) ==
  /\ At(p, VP, "update")
  /\ LET s == inv[p].id IN
     \/ /\ shots' = [shots EXCEPT ![s] = VPUpdate(@, inv[p].data[1])]
        /\ lumaSince' = [lumaSince EXCEPT ![s] = 0]
        /\ inv' = [inv EXCEPT ![p] =
             [Called(inv[p], "update:shots", shots'[s].image_status, shots'[s].visual_prompt)
              EXCEPT !.pc = "invoke"]]
     \/ /\ inv' = [inv EXCEPT ![p] =
             [Called(inv[p], "update:shots", "error", <<>>) EXCEPT !.pc = "invoke"]]
        /\ UNCHANGED <<shots, lumaSince>>
  /\ UNCHANGED <<pageVars, env, client, started>>

\* 4. update the shot; 500 when the update returns an error
VP_Update(p) ==
  /\ At(p, VP, "update")
  /\ LET s == inv[p].id IN
     \/ /\ shots' = [shots EXCEPT ![s] = VPUpdate(@, inv[p].data[1])]
        /\ lumaSince' = [lumaSince EXCEPT ![s] = 0]
        /\ inv' = [inv EXCEPT ![p] =
             [Called(inv[p], "update:shots", shots'[s].image_status, shots'[s].visual_prompt)
              EXCEPT !.pc = "invoke"]]
     \/ /\ inv' = [inv EXCEPT ![p] =
             Finish(Called(inv[p], "update:shots", "error", <<>>),
                    errorResponse("Failed to save generated prompt", 500))]
        /\ UNCHANGED <<shots, lumaSince>>
  /\ UNCHANGED <<pageVars, env, client, started>>

\* mutant: an exception of functions.invoke reaches the outer catch
VP_Invoke_NoCatch(p) ==
  /\ At(p, VP, "invoke")
  /\ \E answer \in {"ok", "error", "throw"} :
       inv' = [inv EXCEPT ![p] =
                 Finish(Called(inv[p], "invoke:generate-shot-image", answer, <<>>),
                        IF answer = "throw"
                        THEN errorResponse("Failed to generate visual prompt", 500)
                        ELSE successResponse)]
  /\ UNCHANGED <<pageVars, env, client, shots, lumaSince, started>>

\* 5. functions.invoke('generate-shot-image'): an error or an exception is
\* logged and the success response is returned all the same
VP_Invoke(p) ==
  /\ At(p, VP, "invoke")
  /\ \E answer \in {"ok", "error", "throw"} :
       inv' = [inv EXCEPT ![p] =
                 Finish(Called(inv[p], "invoke:generate-shot-image", answer, <<>>),
                        successResponse)]
  /\ UNCHANGED <<pageVars, env, client, shots, lumaSince, started>>

VisualPrompt(p) ==
  \/ VP_Request(p) \/ VP_Json(p) \/ VP_Fetch(p) \/ VP_Claude(p)
  \/ VP_Update(p) \/ VP_Invoke(p)

\* =====================================================================
\* generate-storylines (src/unnamed/part_000)
\* =====================================================================

\* safeParseJson<T>(content) of _shared/claude.ts: the parsed value, or null
safeParseJson(content) == IF content = "unparseable" THEN NULL ELSE content

\* mutant: only a missing parse result is turned down
NoStoryline_NullOnly(parsed) == parsed = NULL

\* mutant: the parsed storyline is not checked
NoStoryline_Unchecked(parsed) == FALSE

\* !storylineData || !storylineData.primary_storyline
NoStoryline(parsed) == parsed = NULL \/ parsed = "noprimary"

\* the users the platform knows and the projects table
Users == {"u1", "u2"}
Projects == {[id |-> "proj", user_id |-> "u1"]}

\* mutant: the project is looked up by its id alone
ProjectRows_AnyUser(id, uid) == {r \in Projects : r.id = id}

\* from('projects').select(...).eq('id', project_id).eq('user_id', user.id)
ProjectRows(id, uid) == {r \in Projects : r.id = id /\ r.user_id = uid}

\* mutant: every storyline is saved as the selected one
IsSelected_Always(alt) == TRUE

\* const isSelected = !generate_alternative
IsSelected(alt) == ~alt

\* mutant: the catch block without its AuthError branch
GSCatch_NoAuthBranch(error) ==
  IF error = "SyntaxError"
  THEN errorResponse("Failed to parse request body or API response", 400)
  ELSE errorResponse("Internal server error", 500)

\* the catch block: AuthError 401, SyntaxError 400, anything else 500
GSCatch(error) ==
  IF error = "AuthError" THEN errorResponse("Unauthorized", 401)
  ELSE IF error = "SyntaxError"
  THEN errorResponse("Failed to parse request body or API response", 400)
  ELSE errorResponse("Internal server error", 500)

\* what saveStorylineData returns: the settings to update, the characters
\* saved and the shots inserted
DbResults == [settings : BOOLEAN, characters : 0..1, shots : 0..1]

DbText(db) ==
  << IF db.settings THEN "settings" ELSE "nosettings",
     IF db.characters > 0 THEN "characters" ELSE "nocharacters",
     IF db.shots > 0 THEN "shots" ELSE "noshots" >>

\* the steps after saveStorylineData, each behind its own if
AfterSave(dbtext, from) ==
  IF from < 1 /\ dbtext[1] = "settings" THEN "settings"
  ELSE IF from < 2 /\ dbtext[2] = "characters" THEN "characters"
  ELSE IF from < 3 /\ dbtext[3] = "shots" THEN "triggershots"
  ELSE "done"

\* go on to the next step after saveStorylineData, or answer with success
GSContinue(rec, from) ==
  LET to == AfterSave(rec.data, from)
  IN IF to = "done" THEN Finish(rec, successResponse) ELSE [rec EXCEPT !.pc = to]

GS_Request(p) ==
  /\ Free(p)
  /\ \E method \in Methods : inv' = [inv EXCEPT ![p] = Request(GS, method, "auth")]
  /\ started' = started + 1
  /\ UNCHANGED <<pageVars, env, client, shots, lumaSince>>

\* authenticateRequest(req.headers), then createClient inside the try block
GS_Auth(p) ==
  /\ At(p, GS, "auth")
  /\ \E answer \in {"user", "AuthError"}, uid \in Users \cup {"none"} :
       /\ answer = "user" <=> uid \in Users
       /\ LET rec == Called(inv[p], "authenticateRequest", answer, <<uid>>)
          IN inv' = [inv EXCEPT ![p] =
               IF answer = "AuthError" THEN Finish(rec, GSCatch("AuthError"))
               ELSE IF CreateClientThrows(env)
               THEN Finish(Called(rec, "createClient", "throw", <<>>), GSCatch("Error"))
               ELSE [rec EXCEPT !.pc = "json", !.data = <<uid>>]]
  /\ UNCHANGED <<pageVars, env, client, shots, lumaSince, started>>

\* const { project_id, generate_alternative = false } = await req.json()
GS_Json(p) ==
  /\ At(p, GS, "json")
  /\ \E body \in {NULL, "proj", "throw"}, alt \in BOOLEAN :
       /\ body # "proj" => ~alt
       /\ LET rec == Called(inv[p], "req.json", body, <<IF alt THEN "alt" ELSE "main">>)
          IN inv' = [inv EXCEPT ![p] =
               IF body = "throw" THEN Finish(rec, GSCatch("SyntaxError"))
               ELSE IF body = NULL THEN Finish(rec, errorResponse("Project ID is required", 400))
               ELSE [rec EXCEPT !.pc = "project", !.id = body, !.alt = alt]]
  /\ UNCHANGED <<pageVars, env, client, shots, lumaSince, started>>

\* the project of this user; 404; then the Anthropic key; 500
GS_Project(p) ==
  /\ At(p, GS, "project")
  /\ \E answer \in {"row", "error"} :
       /\ answer = "row" => ProjectRows(inv[p].id, inv[p].data[1]) # {}
       /\ LET rec == Called(inv[p], "select:projects", answer, <<>>)
          IN inv' = [inv EXCEPT ![p] =
               IF answer = "error"
               THEN Finish(rec, errorResponse("Project not found or access denied", 404))
               ELSE IF ~env.ANTHROPIC_API_KEY
               THEN Finish(rec, errorResponse("Server configuration error: Anthropic API key not found", 500))
               ELSE [rec EXCEPT !.pc = "story"]]
  /\ UNCHANGED <<pageVars, env, client, shots, lumaSince, started>>

\* Step 1: the storyline from Claude, parsed; 500 when it does not parse.
\* Step 2 is skipped for an alternative storyline
GS_Story(p) ==
  /\ At(p, GS, "story")
  /\ \E answer \in {"valid", "noprimary", "unparseable", "throw"} :
       LET rec == Called(inv[p], "claude:storyline", answer, <<>>)
       IN inv' = [inv EXCEPT ![p] =
            IF answer = "throw" THEN Finish(rec, GSCatch("Error"))
            ELSE IF NoStoryline(safeParseJson(answer))
            THEN Finish(rec, errorResponse("Failed to parse valid storyline from Claude", 500))
            ELSE IF rec.alt THEN [rec EXCEPT !.pc = "save", !.data = <<NULL>>]
            ELSE [rec EXCEPT !.pc = "analysis"]]
  /\ UNCHANGED <<pageVars, env, client, shots, lumaSince, started>>

\* mutant: Step 2 without its own try/catch
GS_Analysis_NoCatch(p) ==
  /\ At(p, GS, "analysis")
  /\ \E answer \in {"valid", "unparseable", "throw"} :
       LET rec == Called(inv[p], "claude:analysis", answer, <<>>)
       IN inv' = [inv EXCEPT ![p] =
            IF answer = "throw" THEN Finish(rec, GSCatch("Error"))
            ELSE [rec EXCEPT !.pc = "save", !.data = <<safeParseJson(answer)>>]]
  /\ UNCHANGED <<pageVars, env, client, shots, lumaSince, started>>

\* Step 2: the analysis from Claude inside its own try/catch: an exception
\* leaves analysisData null
GS_Analysis(p) ==
  /\ At(p, GS, "analysis")
  /\ \E answer \in {"valid", "unparseable", "throw"} :
       LET rec == Called(inv[p], "claude:analysis", answer, <<>>)
           analysisData == IF answer = "throw" THEN NULL ELSE safeParseJson(answer)
       IN inv' = [inv EXCEPT ![p] = [rec EXCEPT !.pc = "save", !.data = <<analysisData>>]]
  /\ UNCHANGED <<pageVars, env, client, shots, lumaSince, started>>

\* Step 3: saveStorylineData(client, project_id, storylineData, isSelected,
\* analysisData, generate_alternative)
GS_Save(p) ==
  /\ At(p, GS, "save")
  /\ LET isSelected == IsSelected(inv[p].alt)
         args == <<IF isSelected THEN "selected" ELSE "unselected", inv[p].data[1]>>
     IN \/ \E db \in DbResults :
             inv' = [inv EXCEPT ![p] =
               GSContinue([CalledWith(inv[p], "saveStorylineData", args, "rows", DbText(db))
                           EXCEPT !.data = DbText(db)], 0)]
        \/ inv' = [inv EXCEPT ![p] =
             Finish(CalledWith(inv[p], "saveStorylineData", args, "throw", <<>>),
                    GSCatch("Error"))]
  /\ UNCHANGED <<pageVars, env, client, shots, lumaSince, started>>

\* updateProjectSettings, when there are settings to update
GS_Settings(p) ==
  /\ At(p, GS, "settings")
  /\ \E answer \in {"ok", "throw"} :
       LET rec == Called(inv[p], "updateProjectSettings", answer, <<>>)
       IN inv' = [inv EXCEPT ![p] =
            IF answer = "throw" THEN Finish(rec, GSCatch("Error")) ELSE GSContinue(rec, 1)]
  /\ UNCHANGED <<pageVars, env, client, shots, lumaSince, started>>

\* triggerCharacterImageGeneration, when characters were saved
GS_Characters(p) ==
  /\ At(p, GS, "characters")
  /\ \E answer \in {"ok", "throw"} :
       LET rec == Called(inv[p], "triggerCharacterImageGeneration", answer, <<>>)
       IN inv' = [inv EXCEPT ![p] =
            IF answer = "throw" THEN Finish(rec, GSCatch("Error")) ELSE GSContinue(rec, 2)]
  /\ UNCHANGED <<pageVars, env, client, shots, lumaSince, started>>

\* triggerShotVisualPromptGeneration, when shots were inserted
GS_TriggerShots(p) ==
  /\ At(p, GS, "triggershots")
  /\ \E answer \in {"ok", "throw"} :
       LET rec == Called(inv[p], "triggerShotVisualPromptGeneration", answer, <<>>)
       IN inv' = [inv EXCEPT ![p] =
            IF answer = "throw" THEN Finish(rec, GSCatch("Error")) ELSE GSContinue(rec, 3)]
  /\ UNCHANGED <<pageVars, env, client, shots, lumaSince, started>>

Storylines(p) ==
  \/ GS_Request(p) \/ GS_Auth(p) \/ GS_Json(p) \/ GS_Project(p) \/ GS_Story(p)
  \/ GS_Analysis(p) \/ GS_Save(p) \/ GS_Settings(p) \/ GS_Characters(p)
  \/ GS_TriggerShots(p)

\* =====================================================================
\* the fal.ai submit handler (src/unnamed/part_001)
\* =====================================================================

\* mutant: the request goes on without FAL_KEY
FAL_Request_NoKeyCheck(p) ==
  /\ Free(p)
  /\ \E method \in Methods : inv' = [inv EXCEPT ![p] = Request(FAL, method, "json")]
  /\ started' = started + 1
  /\ UNCHANGED <<pageVars, env, client, shots, lumaSince>>

\* the request arrives; FAL_KEY is read first, and its absence is thrown
FAL_Request(p) ==
  /\ Free(p)
  /\ \E method \in Methods :
       LET rec == Request(FAL, method, "json")
       IN inv' = [inv EXCEPT ![p] =
            IF method = "OPTIONS" THEN rec
            ELSE IF ~env.FAL_KEY
            THEN Finish(rec, FalError("FAL_KEY environment variable is not set"))
            ELSE rec]
  /\ started' = started + 1
  /\ UNCHANGED <<pageVars, env, client, shots, lumaSince>>

\* mutant: modelId is not checked
FAL_Json_NoCheck(p) ==
  /\ At(p, FAL, "json")
  /\ \E body \in {NULL, "model", "throw"} :
       LET rec == Called(inv[p], "req.json", body, <<>>)
       IN inv' = [inv EXCEPT ![p] =
            IF body = "throw" THEN Finish(rec, FalError("Unexpected token"))
            ELSE [rec EXCEPT !.pc = "fetch", !.id = body]]
  /\ UNCHANGED <<pageVars, env, client, shots, lumaSince, started>>

\* const { modelId, input } = await req.json(); modelId is required
FAL_Json(p) ==
  /\ At(p, FAL, "json")
  /\ \E body \in {NULL, "model", "throw"} :
       LET rec == Called(inv[p], "req.json", body, <<>>)
       IN inv' = [inv EXCEPT ![p] =
            IF body = "throw" THEN Finish(rec, FalError("Unexpected token"))
            ELSE IF body = NULL THEN Finish(rec, FalError("modelId is required"))
            ELSE [rec EXCEPT !.pc = "fetch", !.id = body]]
  /\ UNCHANGED <<pageVars, env, client, shots, lumaSince, started>>

\* fetch(`https://fal.run/v1/${modelId}`, ...)
FAL_Fetch(p) ==
  /\ At(p, FAL, "fetch")
  /\ \E answer \in {"ok", "notok", "throw"} :
       LET rec == Called(inv[p], "fetch:fal", answer, <<>>)
       IN inv' = [inv EXCEPT ![p] =
            IF answer = "throw" THEN Finish(rec, FalError("fetch failed"))
            ELSE [rec EXCEPT !.pc = "respjson", !.data = <<answer>>]]
  /\ UNCHANGED <<pageVars, env, client, shots, lumaSince, started>>

\* const data = await response.json(); if (!response.ok) throw; the body
\* of fal.ai is no JSON (json() throws), the JSON value null (reading
\* data.message or data.request_id throws a TypeError) or another value
FAL_RespJson(p) ==
  /\ At(p, FAL, "respjson")
  /\ \E answer \in {"data", NULL, "throw"} :
       LET rec == Called(inv[p], "response.json", answer, <<>>)
       IN inv' = [inv EXCEPT ![p] =
            IF answer = "throw" THEN Finish(rec, FalError("Unexpected token"))
            ELSE IF answer = NULL
            THEN Finish(rec, FalError("Cannot read properties of null"))
            ELSE IF rec.data[1] = "notok"
            THEN Finish(rec, FalError("Failed to submit request to fal.ai"))
            ELSE Finish(rec, FalSuccess)]
  /\ UNCHANGED <<pageVars, env, client, shots, lumaSince, started>>

FalSubmit(p) == FAL_Request(p) \/ FAL_Json(p) \/ FAL_Fetch(p) \/ FAL_RespJson(p)

Next == \E p \in Procs : ShotImage(p) \/ VisualPrompt(p) \/ Storylines(p) \/ FalSubmit(p)

Spec == Init /\ [][Next]_vars

\* =====================================================================
\* StoryboardPage.fetchData (src/unnamed/part_002)
\* The statements of fetchData after its one await run without another
\* callback in between: they are one action.
\* =====================================================================

\* useParams: the projectId of the route, which may be missing
ProjectIds == {NULL, "proj"}

\* what a query resolves to: { data, error }
QueryError == [error |-> TRUE, hasData |-> FALSE, data |-> <<>>]
QueryNull == [error |-> FALSE, hasData |-> FALSE, data |-> <<>>]
QueryData(d) == [error |-> FALSE, hasData |-> TRUE, data |-> d]

Scene(id, n) == [id |-> id, scene_number |-> n]

\* the rows of a project's scenes, ordered by scene_number ascending
SceneLists == {<<>>, <<Scene("s2", 2)>>, <<Scene("s0", 0), Scene("s1", 1)>>}

CharacterLists == {<<>>, <<"c1">>}

Project(id) == [id |-> id, title |-> "title"]

\* .single(): the one row, or an error
ProjectResults(id) == {QueryError, QueryData(<<Project(id)>>)}

ScenesResults == {QueryError, QueryNull} \cup {QueryData(d) : d \in SceneLists}

CharactersResults == {QueryError, QueryNull} \cup {QueryData(d) : d \in CharacterLists}

\* what Promise.all of the three queries settles to: the three results, or
\* a rejection
Settled(id) ==
  [rejected : {FALSE}, project : ProjectResults(id), scenes : ScenesResults,
   characters : CharactersResults]
  \cup {[rejected |-> TRUE, project |-> QueryError, scenes |-> QueryError,
         characters |-> QueryError]}

\* res.data || []
DataOrEmpty(r) == IF r.hasData THEN r.data ELSE <<>>

\* fetchedScenes.find(s => s.scene_number === 1) ||
\*   (fetchedScenes.length > 0 ? fetchedScenes[0] : null)
InitialScene(fetchedScenes) ==
  LET ones == {i \in 1..Len(fetchedScenes) : fetchedScenes[i].scene_number = 1}
  IN IF ones # {}
     THEN Some(fetchedScenes[CHOOSE i \in ones : \A j \in ones : i <= j])
     ELSE IF Len(fetchedScenes) > 0 THEN Some(fetchedScenes[1]) ELSE None

\* mutant: the catch block leaves the project details as they are
CatchReset_KeepProject(st) ==
  [st EXCEPT !.scenes = <<>>, !.characters = <<>>,
             !.selectedScene = None, !.sidebarData = None]

\* the catch block: every piece of loaded state is reset
CatchReset(st) ==
  [st EXCEPT !.projectDetails = None, !.scenes = <<>>, !.characters = <<>>,
             !.selectedScene = None, !.sidebarData = None]

\* the try block after the await, statement by statement: each result is
\* looked at in turn, its state is set, and the first error is thrown to
\* the catch block
Process(st, res) ==
  IF res.rejected \/ res.project.error THEN CatchReset(st)
  ELSE
    LET fetchedProject == res.project.data[1]
        st1 == [st EXCEPT !.projectDetails = Some(fetchedProject)]
    IN IF res.scenes.error THEN CatchReset(st1)
       ELSE
         LET fetchedScenes == DataOrEmpty(res.scenes)
             initialScene == InitialScene(fetchedScenes)
             st2 == [st1 EXCEPT !.scenes = fetchedScenes,
                                !.selectedScene = initialScene]
         IN IF res.characters.error THEN CatchReset(st2)
            ELSE
              LET fetchedCharacters == DataOrEmpty(res.characters)
              IN [st2 EXCEPT
                    !.characters = fetchedCharacters,
                    !.sidebarData =
                       Some([projectTitle |-> fetchedProject.title,
                             scene |-> initialScene,
                             characters |-> fetchedCharacters])]

\* finally { setIsLoading(false) }
Finally(st, res) == [st EXCEPT !.isLoading = FALSE]

\* useEffect calls fetchData, at mount and when the projectId of the route
\* changes.  Without a projectId: setIsLoading(false), navigate('/home'),
\* return.  With one: setIsLoading(true) and the three queries are sent
Page_Fetch(l) ==
  /\ path = "storyboard"
  /\ fetched < MaxLoads
  /\ loads[l].pc \in {"idle", "done"}
  /\ \E projectId \in ProjectIds :
       IF projectId = NULL
       THEN /\ page' = [page EXCEPT !.isLoading = FALSE]
            /\ path' = "home"
            /\ loads' = [loads EXCEPT ![l] = [NoLoad EXCEPT !.pc = "done"]]
       ELSE /\ page' = [page EXCEPT !.isLoading = TRUE]
            /\ path' = path
            /\ loads' = [loads EXCEPT ![l] =
                           [NoLoad EXCEPT !.pc = "await", !.projectId = projectId]]
  /\ fetched' = fetched + 1
  /\ UNCHANGED handlerVars

\* Promise.all has settled: the try block goes on, then catch and finally
Page_Loaded(l) ==
  /\ loads[l].pc = "await"
  /\ \E res \in Settled(loads[l].projectId) :
       /\ page' = Finally(Process(page, res), res)
       /\ loads' = [loads EXCEPT ![l].pc = "done", ![l].res = Some(res)]
  /\ UNCHANGED <<handlerVars, path, fetched>>

\* the handlers take no request while the page is looked at
NoRequests ==
  /\ env = [SUPABASE_URL |-> TRUE, ANTHROPIC_API_KEY |-> TRUE, FAL_KEY |-> TRUE]
  /\ client = [session |-> NULL]
  /\ shots = [s \in ShotIds |->
                [image_status |-> "pending", visual_prompt |-> NullText,
                 failure_reason |-> NULL]]
  /\ inv = [p \in Procs |-> Idle]
  /\ lumaSince = [s \in ShotIds |-> 0]
  /\ started = 0

PageInit == PageStart /\ NoRequests

PageNext == \E l \in Loads : Page_Fetch(l) \/ Page_Loaded(l)

PageSpec == PageInit /\ [][PageNext]_vars

\* =====================================================================
\* Properties
\* =====================================================================

Entry(p, c) == inv[p].log[Pos(p, c)]

Before(p, c, d) == Did(p, c) /\ Did(p, d) /\ Pos(p, c) < Pos(p, d)

Triggers ==
  {"updateProjectSettings", "triggerCharacterImageGeneration",
   "triggerShotVisualPromptGeneration"}

\* calls to Claude, Luma and fal.ai
AICalls == {"claude", "claude:storyline", "claude:analysis", "luma", "fetch:fal"}

\* calls that write rows or start another handler
Effects ==
  {"update:shots", "saveStorylineData", "invoke:generate-shot-image"} \cup Triggers

\* C1: in every invocation of generate-storylines the analysis call comes
\* after the storyline call has returned a storyline that parsed,
\* saveStorylineData comes after the analysis step (or after the storyline
\* when the analysis is skipped), and the settings update and both triggers
\* come after saveStorylineData has returned.
C1_StepOrder ==
  \A p \in Procs : inv[p].h = GS =>
    /\ Did(p, "claude:analysis") =>
         /\ Got(p, "claude:storyline", "valid")
         /\ Before(p, "claude:storyline", "claude:analysis")
    /\ Did(p, "saveStorylineData") =>
         /\ Got(p, "claude:storyline", "valid")
         /\ Before(p, "claude:storyline", "saveStorylineData")
         /\ inv[p].alt \/ Before(p, "claude:analysis", "saveStorylineData")
    /\ \A c \in Triggers : Did(p, c) =>
         /\ Got(p, "saveStorylineData", "rows")
         /\ Before(p, "saveStorylineData", c)

\* an invocation that ran all the steps and answered with success
C1_Witness ==
  \E p \in Procs :
    /\ inv[p].h = GS /\ Done(p) /\ inv[p].resp = successResponse
    /\ Did(p, "claude:analysis")
    /\ \A c \in Triggers : Did(p, c)

\* C2 (as claimed): the handlers write only pending, generating, completed
\* or failed; a shot enters 'generating' only from 'pending' and leaves it
\* only to 'completed' or 'failed'.
C2_PendingGeneratingDone ==
  [][\A s \in ShotIds :
       LET a == shots[s].image_status
           b == shots'[s].image_status
       IN a # b =>
            /\ b \in {"pending", "generating", "completed", "failed"}
            /\ b = "generating" => a = "pending"
            /\ a = "generating" => b \in {"completed", "failed"}]_vars

\* C2 (amended): the handlers write only prompt_ready, generating or
\* failed; 'prompt_ready' is written by generate-visual-prompt,
\* 'generating' by generate-shot-image from whatever status the shot has,
\* and 'failed' only by a generate-shot-image invocation that wrote
\* 'generating' before.
C2_StatusesWritten ==
  [][\A s \in ShotIds :
       LET a == shots[s].image_status
           b == shots'[s].image_status
       IN a # b =>
            /\ b \in {"prompt_ready", "generating", "failed"}
            /\ b = "prompt_ready" => \E p \in Procs : At(p, VP, "update")
            /\ b = "generating" => \E p \in Procs : At(p, SI, "setgen")
            /\ b = "failed" =>
                 \E p \in Procs : At(p, SI, "fail") /\ Got(p, "update:shots", "generating")]_vars

\* a shot marked failed by the invocation that had marked it generating
C2_Witness ==
  \E p \in Procs, s \in ShotIds :
    /\ inv[p].h = SI /\ Done(p) /\ inv[p].id = s
    /\ Got(p, "update:shots", "generating") /\ Got(p, "update:shots", "failed")
    /\ shots[s].image_status = "failed"

\* the analysis step of p failed: Claude threw, or its text did not parse
AnalysisFailed(p) ==
  Got(p, "claude:analysis", "throw") \/ Got(p, "claude:analysis", "unparseable")

\* no step of p after the analysis threw
RestSucceeded(p) ==
  /\ Got(p, "saveStorylineData", "rows")
  /\ \A c \in Triggers : ~Got(p, c, "throw")

\* C3: when the analysis step of generate-storylines fails, the invocation
\* still calls saveStorylineData, with analysisData = null, and when the
\* remaining steps succeed it runs the triggers the saved data call for and
\* answers with the success response.
C3_AnalysisFailureSwallowed ==
  \A p \in Procs : inv[p].h = GS /\ Done(p) /\ AnalysisFailed(p) =>
    /\ Before(p, "claude:analysis", "saveStorylineData")
    /\ Entry(p, "saveStorylineData").x[2] = NULL
    /\ RestSucceeded(p) =>
         /\ inv[p].resp = successResponse
         /\ LET db == Entry(p, "saveStorylineData").t
            IN /\ db[1] = "settings" <=> Did(p, "updateProjectSettings")
               /\ db[2] = "characters" <=> Did(p, "triggerCharacterImageGeneration")
               /\ db[3] = "shots" <=> Did(p, "triggerShotVisualPromptGeneration")

\* Claude threw in the analysis step and the invocation went on to success
C3_Witness ==
  \E p \in Procs :
    /\ inv[p].h = GS /\ Done(p) /\ Got(p, "claude:analysis", "throw")
    /\ inv[p].resp = successResponse
    /\ Did(p, "triggerShotVisualPromptGeneration")

\* an exception was raised in p outside the two steps whose failure is
\* swallowed by design (the analysis step, the invocation of the next handler)
Raised(p) ==
  \E i \in 1..Len(inv[p].log) :
    /\ inv[p].log[i].a \in {"throw", "AuthError"}
    /\ inv[p].log[i].c \notin {"claude:analysis", "invoke:generate-shot-image"}

\* C4: in each of the four handlers every exception raised while handling a
\* request, client creation included, ends in an HTTP error response built
\* by the handler: status >= 400 and a JSON body with an error field.
C4_EveryExceptionMapped ==
  \A p \in Procs : Done(p) /\ Raised(p) =>
    /\ inv[p].resp.status >= 400
    /\ inv[p].resp.kind = "json"
    /\ inv[p].resp.error # "none"

\* what p was given: the answers to its calls (for a write, whether it
\* was applied)
In(e) ==
  IF e.c = "update:shots"
  THEN [a |-> IF e.a = "error" THEN "error" ELSE "ok", t |-> <<>>]
  ELSE [a |-> e.a, t |-> e.t]

Inputs(p) == [i \in 1..Len(inv[p].log) |-> In(inv[p].log[i])]

\* what p did: its calls with their arguments, the rows it wrote, its response
Out(e) ==
  IF e.c = "update:shots" /\ e.a # "error"
  THEN [c |-> e.c, x |-> e.x, a |-> e.a, t |-> e.t]
  ELSE [c |-> e.c, x |-> e.x, a |-> "", t |-> <<>>]

Outputs(p) ==
  [resp |-> inv[p].resp, calls |-> [i \in 1..Len(inv[p].log) |-> Out(inv[p].log[i])]]

IsPrefix(u, v) == Len(u) <= Len(v) /\ \A i \in 1..Len(u) : u[i] = v[i]

\* C5: no invocation writes the state of the process (the module-level
\* client of generate-shot-image stays as module load left it), and two
\* invocations of one handler that were given the same request, the same
\* database answers and the same external answers made the same calls, wrote
\* the same rows and gave the same response, whatever ran before or beside them.
C5_NoSharedState ==
  /\ client = [session |-> NULL]
  /\ \A p, q \in Procs :
       /\ Done(p) /\ Done(q) /\ inv[p].h = inv[q].h
       /\ inv[p].resp.kind = "empty" <=> inv[q].resp.kind = "empty"
       /\ IsPrefix(Inputs(p), Inputs(q))
       => Inputs(p) = Inputs(q) /\ Outputs(p) = Outputs(q)

\* two invocations of generate-shot-image with the same inputs, one after
\* the other had authenticated a user through the shared client
C5_Witness ==
  \E p, q \in Procs :
    /\ p # q /\ Done(p) /\ Done(q) /\ inv[p].h = SI /\ inv[q].h = SI
    /\ Inputs(p) = Inputs(q)
    /\ Got(p, "auth.getUser", "user") /\ Did(q, "luma")

\* C6: an invocation whose body lacks the identifier (shot_id, project_id,
\* modelId) ends with an error response and has called no AI provider,
\* written no row and invoked no other handler.
C6_ValidateBeforeActing ==
  \A p \in Procs : Got(p, "req.json", NULL) =>
    /\ Done(p)
    /\ inv[p].resp.status >= 400
    /\ \A i \in 1..Len(inv[p].log) : inv[p].log[i].c \notin AICalls \cup Effects

\* each of the four handlers has turned down a body without its identifier
C6_Witness ==
  \E p, q \in Procs :
    /\ inv[p].h = FAL /\ Got(p, "req.json", NULL)
    /\ inv[q].h = GS /\ Got(q, "req.json", NULL)

\* C7: every response of generate-shot-image to a request other than the
\* preflight has success true or false, true exactly with status 200, and
\* with success false an error field and a status of 400, 401, 404 or 500.
C7_Envelope ==
  \A p \in Procs : inv[p].h = SI /\ Done(p) /\ inv[p].resp.kind # "empty" =>
    LET r == inv[p].resp
    IN /\ r.kind = "json"
       /\ r.success \in {"true", "false"}
       /\ r.success = "true" <=> r.status = 200
       /\ r.success = "false" => r.error # "none" /\ r.status \in {400, 401, 404, 500}

\* an error envelope and a success envelope of generate-shot-image
C7_Witness ==
  \E p, q \in Procs :
    /\ inv[p].h = SI /\ Done(p) /\ inv[p].resp.status = 401
    /\ inv[q].h = SI /\ Done(q) /\ inv[q].resp.status = 200 /\ Did(q, "luma")

\* C8: an invocation of generate-shot-image that set the shot to
\* 'generating' and ends with a response other than success leaves the shot
\* 'failed' when it returns.
C8_FailedAfterError ==
  [][\A p \in Procs :
       /\ inv[p].h = SI /\ ~Done(p) /\ inv'[p].pc = "done" /\ inv'[p].h = SI
       /\ Got(p, "update:shots", "generating")
       /\ inv'[p].resp.success = "false"
       => shots'[inv[p].id].image_status = "failed"]_vars

\* C9: at most one Luma generation is initiated for a shot while it is
\* 'generating'.
C9_OneLumaPerGeneration == \A s \in ShotIds : lumaSince[s] <= 1

\* C10: generate-visual-prompt writes the shot once at most, after Claude
\* has answered, and that write stores the cleaned answer and 'prompt_ready'
\* together; when the shot is not found, the Anthropic key is missing or
\* Claude throws, it writes nothing, does not invoke generate-shot-image and
\* answers 404 or 500.
C10_PromptAndStatusTogether ==
  \A p \in Procs : inv[p].h = VP =>
    /\ Did(p, "update:shots") /\ Entry(p, "update:shots").a # "error" =>
         /\ Got(p, "claude", "text")
         /\ Before(p, "claude", "update:shots")
         /\ Entry(p, "update:shots").a = "prompt_ready"
         /\ Entry(p, "update:shots").t = CleanVisualPrompt(Entry(p, "claude").t)
    /\ Did(p, "invoke:generate-shot-image") => Got(p, "update:shots", "prompt_ready")
    /\ /\ Done(p)
       /\ \/ Got(p, "select:shots", "error")
          \/ Got(p, "claude", "throw")
          \/ Got(p, "select:shots", "row") /\ ~env.ANTHROPIC_API_KEY
       => /\ ~Did(p, "update:shots")
          /\ ~Did(p, "invoke:generate-shot-image")
          /\ inv[p].resp.status \in {404, 500}
          /\ inv[p].resp.error # "none"

\* one invocation stored a prompt, another one lost its Claude call
C10_Witness ==
  \E p, q \in Procs :
    /\ inv[p].h = VP /\ Got(p, "update:shots", "prompt_ready")
    /\ inv[q].h = VP /\ Done(q) /\ Got(q, "claude", "throw")

\* C11: whenever generate-visual-prompt stores 'prompt_ready', the
\* visual_prompt stored with it is a usable prompt: not empty and not only
\* whitespace, so that generate-shot-image does not turn the shot down.
C11_ReadyPromptUsable ==
  \A p \in Procs : inv[p].h = VP /\ Got(p, "update:shots", "prompt_ready") =>
    ~NoUsablePrompt(Entry(p, "update:shots").t)

\* C12: generate-visual-prompt invokes generate-shot-image only after its
\* update of the shot succeeded; when the update returns an error it answers
\* 500 'Failed to save generated prompt' and invokes nothing.
C12_InvokeAfterUpdate ==
  \A p \in Procs : inv[p].h = VP =>
    /\ Did(p, "invoke:generate-shot-image") =>
         /\ Entry(p, "update:shots").a = "prompt_ready"
         /\ Before(p, "update:shots", "invoke:generate-shot-image")
    /\ Got(p, "update:shots", "error") =>
         /\ Done(p)
         /\ inv[p].resp = errorResponse("Failed to save generated prompt", 500)
         /\ ~Did(p, "invoke:generate-shot-image")

\* an invocation whose update was turned down by the database
C12_Witness ==
  \E p \in Procs :
    inv[p].h = VP /\ Done(p) /\ Got(p, "claude", "text") /\ Got(p, "update:shots", "error")

FetchedBlank(p) ==
  /\ Did(p, "select:shots") /\ Entry(p, "select:shots").a # "error"
  /\ LET t == Entry(p, "select:shots").t
     IN t = NullText \/ \A i \in 1..Len(t) : t[i] = " "

\* C14: when the shot generate-shot-image fetched has a visual_prompt that
\* is null, empty or only whitespace, the invocation answers 400, writes
\* nothing to the shot and does not call initiateLumaImageGeneration.
C14_BlankPromptUntouched ==
  \A p \in Procs : inv[p].h = SI /\ FetchedBlank(p) =>
    /\ Done(p)
    /\ inv[p].resp = SIError("Shot doesn't have a visual prompt", 400)
    /\ ~Did(p, "update:shots")
    /\ ~Did(p, "luma")

\* a shot with a whitespace-only prompt, turned down and left as it was
C14_Witness ==
  \E p \in Procs :
    /\ inv[p].h = SI /\ Done(p) /\ Got(p, "select:shots", "prompt_ready")
    /\ Entry(p, "select:shots").t = <<" ">>
    /\ shots[inv[p].id].image_status = "prompt_ready"

\* C15: when initiateLumaImageGeneration throws, the handler writes
\* image_status 'failed' with failure_reason equal to the message of the
\* error before it answers, and answers 500 with success false and that
\* message.
C15_LumaFailureRecorded ==
  \A p \in Procs : inv[p].h = SI /\ Got(p, "luma", "throw") =>
    LET msg == Entry(p, "luma").t[1]
    IN /\ inv[p].pc \in {"fail", "done"}
       /\ Done(p) =>
            /\ Got(p, "update:shots", "failed")
            /\ inv[p].log[Len(inv[p].log)] =
                 Ans("update:shots", <<>>, "failed", <<msg>>)
            /\ Pos(p, "luma") = Len(inv[p].log) - 1
            /\ inv[p].resp = SIError(msg, 500)

\* Luma threw and the invocation ended: the row is 'failed' with the
\* message as its failure_reason
C15_Witness ==
  \E p \in Procs :
    /\ inv[p].h = SI /\ Done(p) /\ Got(p, "luma", "throw")
    /\ shots[inv[p].id].image_status = "failed"
    /\ shots[inv[p].id].failure_reason = Entry(p, "luma").t[1]
    /\ inv[p].resp.status = 500

\* C16: initiateLumaImageGeneration is called only after auth.getUser
\* returned a user; when it returned an error or no user the invocation
\* answers 401 'User not authenticated' and never calls it.
C16_LumaOnlyForUser ==
  \A p \in Procs : inv[p].h = SI =>
    /\ Did(p, "luma") =>
         Got(p, "auth.getUser", "user") /\ Before(p, "auth.getUser", "luma")
    /\ Did(p, "auth.getUser") /\ ~Got(p, "auth.getUser", "user") =>
         /\ Done(p)
         /\ inv[p].resp = SIError("User not authenticated", 401)
         /\ ~Did(p, "luma")

\* one invocation turned away with 401, one that reached Luma with a user
C16_Witness ==
  \E p, q \in Procs :
    /\ inv[p].h = SI /\ Done(p) /\ Got(p, "auth.getUser", "error")
    /\ inv[q].h = SI /\ Got(q, "auth.getUser", "user") /\ Did(q, "luma")

\* C17: in generate-storylines every call (the project query, the Claude
\* calls, every write and trigger) comes after authenticateRequest has
\* returned a user; when it throws AuthError the answer is 401 and nothing
\* else was read, written or called.
C17_AuthenticateFirst ==
  \A p \in Procs : inv[p].h = GS /\ inv[p].log # <<>> =>
    /\ inv[p].log[1].c = "authenticateRequest"
    /\ Len(inv[p].log) > 1 => inv[p].log[1].a = "user"
    /\ inv[p].log[1].a = "AuthError" =>
         /\ Done(p)
         /\ inv[p].resp.status = 401
         /\ inv[p].resp.error # "none"
         /\ Len(inv[p].log) = 1

\* one invocation turned away with 401, one that went on to Claude
C17_Witness ==
  \E p, q \in Procs :
    /\ inv[p].h = GS /\ Done(p) /\ Got(p, "authenticateRequest", "AuthError")
    /\ inv[q].h = GS /\ Got(q, "authenticateRequest", "user") /\ Did(q, "claude:storyline")

\* the user p was authenticated as
UserOf(p) == Entry(p, "authenticateRequest").t[1]

\* C18: generate-storylines calls Claude, saves and triggers only for a
\* project row with the requested id whose user_id is the authenticated
\* user's id; when no such row is fetched the answer is 404 'Project not
\* found or access denied' and nothing is called, written or triggered.
C18_OwnProjectOnly ==
  \A p \in Procs : inv[p].h = GS =>
    /\ (\E i \in 1..Len(inv[p].log) : inv[p].log[i].c \in AICalls \cup Effects) =>
         /\ Got(p, "select:projects", "row")
         /\ \E r \in Projects : r.id = inv[p].id /\ r.user_id = UserOf(p)
    /\ Got(p, "select:projects", "error") =>
         /\ Done(p)
         /\ inv[p].resp = errorResponse("Project not found or access denied", 404)
         /\ \A i \in 1..Len(inv[p].log) : inv[p].log[i].c \notin AICalls \cup Effects

\* another user's request for the project was answered 404, the owner's
\* request reached saveStorylineData
C18_Witness ==
  \E p, q \in Procs :
    /\ inv[p].h = GS /\ Done(p) /\ Got(p, "select:projects", "error")
    /\ UserOf(p) = "u2" /\ inv[p].id = "proj"
    /\ inv[q].h = GS /\ Did(q, "saveStorylineData") /\ UserOf(q) = "u1"

\* C19: with generate_alternative true no analysis call is made and the
\* storyline is saved unselected with analysisData null; with
\* generate_alternative false or absent it is saved selected.
C19_AnalysisForMainOnly ==
  \A p \in Procs : inv[p].h = GS /\ Did(p, "req.json") =>
    LET alt == Entry(p, "req.json").t = <<"alt">>
    IN /\ alt => ~Did(p, "claude:analysis")
       /\ Did(p, "saveStorylineData") =>
            /\ alt => Entry(p, "saveStorylineData").x = <<"unselected", NULL>>
            /\ ~alt => /\ Entry(p, "saveStorylineData").x[1] = "selected"
                       /\ Did(p, "claude:analysis")

\* an alternative storyline saved beside a main storyline
C19_Witness ==
  \E p, q \in Procs :
    /\ inv[p].h = GS /\ Did(p, "saveStorylineData") /\ Entry(p, "req.json").t = <<"alt">>
    /\ inv[q].h = GS /\ Did(q, "saveStorylineData") /\ Entry(q, "req.json").t = <<"main">>

\* C20: when the storyline text of Claude does not parse to an object with
\* primary_storyline, the invocation answers 500 and makes no analysis
\* call, no saveStorylineData or updateProjectSettings call and no trigger.
C20_BadStorylineStops ==
  \A p \in Procs :
    /\ inv[p].h = GS
    /\ Got(p, "claude:storyline", "unparseable") \/ Got(p, "claude:storyline", "noprimary")
    => /\ Done(p)
       /\ inv[p].resp = errorResponse("Failed to parse valid storyline from Claude", 500)
       /\ inv[p].log[Len(inv[p].log)].c = "claude:storyline"
       /\ ~Did(p, "claude:analysis")
       /\ ~Did(p, "saveStorylineData")
       /\ \A c \in Triggers : ~Did(p, c)

\* a storyline without primary_storyline and one that is no JSON at all
C20_Witness ==
  \E p, q \in Procs :
    /\ inv[p].h = GS /\ Done(p) /\ Got(p, "claude:storyline", "noprimary")
    /\ inv[q].h = GS /\ Done(q) /\ Got(q, "claude:storyline", "unparseable")

\* the storyline, scene, shot and character rows p saved are still in the
\* database: saveStorylineData returned them, and no step of the handler,
\* its catch block included, deletes a row
RowsRemain(p) == Got(p, "saveStorylineData", "rows")

\* C21 (as claimed): whenever generate-storylines answers with an error
\* response, no row saved by that invocation remains persisted, also when
\* updateProjectSettings or a trigger failed after saveStorylineData
\* returned.
C21_AllOrNothing ==
  \A p \in Procs :
    inv[p].h = GS /\ Done(p) /\ inv[p].resp.status >= 400 => ~RowsRemain(p)

\* a request to the fal.ai submit handler other than the preflight
FalPost(p) == inv[p].h = FAL /\ inv[p].resp.kind # "empty"

\* p answered 200 with {requestId} / 500 with an error field
FalOk(p) == inv[p].resp = FalSuccess

FalFailed(p) ==
  inv[p].resp.status = 500 /\ inv[p].resp.kind = "json" /\ inv[p].resp.error # "none"

\* FAL_KEY is set, the body of p had a modelId and fal.ai answered p with
\* an OK status
FalAllGood(p) ==
  env.FAL_KEY /\ Got(p, "req.json", "model") /\ Got(p, "fetch:fal", "ok")

\* when FAL_KEY is unset or modelId is missing nothing is sent to fal.ai
FalNothingSent(p) ==
  ~env.FAL_KEY \/ ~Got(p, "req.json", "model") => ~Did(p, "fetch:fal")

\* C22 (as claimed): the fal.ai submit handler answers 200 with {requestId}
\* exactly when FAL_KEY is set, the body has a modelId and fal.ai answered
\* with an OK status; in every other case it answers 500 with an error
\* field, and when FAL_KEY is unset or modelId is missing no request is
\* sent to fal.ai.
C22_OkExactlyWhenFalOk ==
  \A p \in Procs : FalPost(p) =>
    /\ FalNothingSent(p)
    /\ Done(p) => /\ FalOk(p) <=> FalAllGood(p)
                  /\ ~FalOk(p) => FalFailed(p)

\* C22 (amended): the handler answers 200 with {requestId} exactly when
\* FAL_KEY is set, the body has a modelId, fal.ai answered with an OK status
\* and the body of that answer parsed as JSON to a value other than null;
\* in every other case it answers 500 with an error field, and when FAL_KEY
\* is unset or modelId is missing no request is sent to fal.ai.
C22_OkExactlyWhenBodyRead ==
  \A p \in Procs : FalPost(p) =>
    /\ FalNothingSent(p)
    /\ Done(p) => /\ FalOk(p) <=> FalAllGood(p) /\ Got(p, "response.json", "data")
                  /\ ~FalOk(p) => FalFailed(p)

\* a request answered 200 and a request answered 500 although fal.ai had
\* answered with an OK status
C22_Witness ==
  \E p, q \in Procs :
    /\ FalPost(p) /\ Done(p) /\ FalOk(p)
    /\ FalPost(q) /\ Done(q) /\ FalAllGood(q) /\ FalFailed(q)

\* the fetchData call l ends in this step
Ends(l) == loads[l].pc # "done" /\ loads'[l].pc = "done"

\* one of the three queries of a settled load returned an error
AnyQueryError(res) == res.project.error \/ res.scenes.error \/ res.characters.error

\* the loaded state of the page is reset
IsReset(st) ==
  /\ st.projectDetails = None /\ st.selectedScene = None /\ st.sidebarData = None
  /\ st.scenes = <<>> /\ st.characters = <<>>

\* C23: StoryboardPage.fetchData always ends with isLoading = false, and
\* when one of its three queries returned an error, projectDetails,
\* selectedScene and sidebarData are null and scenes and characters are
\* empty when it ends, also when an earlier query of the load had succeeded.
C23_FailedLoadResets ==
  [][\A l \in Loads : Ends(l) =>
       /\ page'.isLoading = FALSE
       /\ loads'[l].res # None /\ AnyQueryError(loads'[l].res[1]) => IsReset(page')]_vars

\* a load whose project query succeeded and whose scenes query failed has
\* ended after an earlier load had filled the page
C23_Witness ==
  \E l, k \in Loads :
    /\ loads[l].pc = "done" /\ loads[l].res # None
    /\ ~loads[l].res[1].project.error /\ loads[l].res[1].scenes.error
    /\ loads[k].pc = "done" /\ loads[k].res # None /\ ~loads[k].res[1].rejected
    /\ ~AnyQueryError(loads[k].res[1])
    /\ IsReset(page) /\ ~page.isLoading

====
